---------------------------- MODULE Spec2Model ----------------------------
(***************************************************************************)
(* Model of tick::Benchmark (src/utils.hpp): the statistics helpers, the   *)
(* runner and the two report operations; and of tick::Stopwatch.           *)
(*                                                                         *)
(* Durations are whole numbers of clock ticks.  A probability p is the     *)
(* exact fraction pn/pd.  Values that the code obtains by multiplying by   *)
(* 1.5 are kept doubled (lo2 = 2*lo, hi2 = 2*hi) so that they stay whole.  *)
(***************************************************************************)
EXTENDS Integers, Sequences, FiniteSets, TLC

(* ------------------------------ bounds --------------------------------- *)

MaxLen == 4

MaxIter == 2

MaxWarmup == 1

MaxBatch == 2

MaxRaw == 1

MaxOverhead == 1

MaxCalls == 3

MaxNow == 4

MaxSwCalls == 4

(* ------------------------------ state ---------------------------------- *)

VARIABLES
    iterations,   \* Benchmark::iterations
    warmup,       \* Benchmark::warmup
    batch_size,   \* Benchmark::batch_size
    samples,      \* Benchmark::samples
    pc,           \* position of the thread inside run, "idle" outside it
    i,            \* run's outer loop counter
    j,            \* run's inner loop counter
    overhead,     \* run's local: the measured overhead
    d,            \* run's local: the last raw interval d.count()
    calls,        \* invocations of func made by the current or last run
    runs,         \* completed runs
    ops,          \* calls of run, print_stats and export_csv made so far
    returned,     \* the SampleSet as the last run returned it
    file,         \* the file at the path: whether it exists, and its lines
    out,          \* the blocks written to standard output
    lastOp,       \* the last operation called, with what it was called
    arg_v,        \* argument of a direct call of a statistics helper
    ret,          \* what that call returned
    start_time,   \* Stopwatch::start_time
    accumulated,  \* Stopwatch::accumulated
    running,      \* Stopwatch::running
    now,          \* the reading of the steady clock
    ranFor,       \* ticks since construction or the last start() that
                  \* passed while running was true
    idleFor,      \* the ticks since then that passed while it was false
    sw_last,      \* the last Stopwatch operation called
    sw_calls      \* Stopwatch operations called so far

config == <<iterations, warmup, batch_size>>

locals == <<pc, i, j, overhead, d>>

stats == <<arg_v, ret>>

\* The fields of the Stopwatch.
sw_fields == <<start_time, accumulated, running>>

sw == <<start_time, accumulated, running, now, ranFor, idleFor, sw_last,
        sw_calls>>

vars == <<iterations, warmup, batch_size, samples, pc, i, j, overhead, d,
          calls, runs, ops, returned, file, out, lastOp, arg_v, ret,
          start_time, accumulated, running, now, ranFor, idleFor, sw_last,
          sw_calls>>

bench == <<iterations, warmup, batch_size, samples, pc, i, j, overhead, d,
           calls, runs, ops, returned, file, out, lastOp, arg_v, ret>>

(* ------------------------ statistics helpers --------------------------- *)

RECURSIVE Sum(_)
Sum(v) == IF v = <<>> THEN 0 ELSE Head(v) + Sum(Tail(v))

RECURSIVE GCD(_, _)
GCD(a, b) == IF b = 0 THEN a ELSE GCD(b, a % b)

\* The quotient a/b of two doubles, as a fraction in lowest terms.
Ratio(a, b) ==
    LET g == GCD(a, b) IN [num |-> a \div g, den |-> b \div g]

RECURSIVE Insert(_, _)
Insert(x, s) ==
    IF s = <<>> THEN <<x>>
    ELSE IF x <= Head(s) THEN <<x>> \o s
    ELSE <<Head(s)>> \o Insert(x, Tail(s))

\* std::sort(v.begin(), v.end())
RECURSIVE Sort(_)
Sort(v) == IF v = <<>> THEN <<>> ELSE Insert(Head(v), Sort(Tail(v)))

RECURSIVE MinOf(_)
MinOf(v) ==
    IF Len(v) = 1 THEN Head(v)
    ELSE LET m == MinOf(Tail(v)) IN IF m < Head(v) THEN m ELSE Head(v)

RECURSIVE MaxOf(_)
MaxOf(v) ==
    IF Len(v) = 1 THEN Head(v)
    ELSE LET m == MaxOf(Tail(v)) IN IF Head(v) < m THEN m ELSE Head(v)

mean(v) == Ratio(Sum(v), Len(v))

\* The value under the square root of stddev: with avg = a/b,
\* sum((x - a/b)^2) / n = sum((b*x - a)^2) / (b*b*n).
stddev(v, avg) ==
    LET sq == [k \in 1..Len(v) |->
                 (avg.den * v[k] - avg.num) * (avg.den * v[k] - avg.num)]
    IN  Ratio(Sum(sq), avg.den * avg.den * Len(v))

\* Mutant: the index is taken in the vector as passed, not in its sort.
percentile_unsorted(v, pn, pd) ==
    LET idx == (pn * (Len(v) - 1)) \div pd IN v[idx + 1]

\* Mutant: the rank is scaled by N instead of N - 1.
percentile_scaled_by_size(v, pn, pd) ==
    LET s   == Sort(v)
        raw == (pn * Len(v)) \div pd
        idx == IF raw > Len(v) - 1 THEN Len(v) - 1 ELSE raw
    IN  s[idx + 1]

\* percentile(v, p) with p = pn/pd; idx is 0-based as in the code.
percentile(v, pn, pd) ==
    LET s   == Sort(v)
        idx == (pn * (Len(v) - 1)) \div pd
    IN  s[idx + 1]

\* The locals of filter_outliers, from the sorted vector s.
fences(s) ==
    LET q1  == percentile(s, 1, 4)
        q3  == percentile(s, 3, 4)
        iqr == q3 - q1
    IN  [q1 |-> q1, q3 |-> q3, iqr |-> iqr,
         lo2 |-> 2 * q1 - 3 * iqr, hi2 |-> 2 * q3 + 3 * iqr]

\* Mutant: the fences are exclusive.
filter_outliers_strict(v) ==
    LET s == Sort(v)
        f == fences(s)
    IN  SelectSeq(s, LAMBDA x : 2 * x > f.lo2 /\ 2 * x < f.hi2)

filter_outliers(v) ==
    LET s == Sort(v)
        f == fences(s)
    IN  SelectSeq(s, LAMBDA x : 2 * x >= f.lo2 /\ 2 * x <= f.hi2)

(* ------------------------------ reports -------------------------------- *)

\* The fields print_stats and export_csv compute, in the order export_csv
\* writes them.
Report ==
    LET clean == filter_outliers(samples)
        avg   == mean(clean)
    IN  <<iterations, batch_size, Len(clean), MinOf(clean), MaxOf(clean),
          avg, stddev(clean, avg),
          percentile(clean, 1, 2), percentile(clean, 9, 10),
          percentile(clean, 19, 20), percentile(clean, 99, 100),
          Ratio(avg.num, avg.den * batch_size)>>

HeaderLine == [kind |-> "header", cells |-> <<>>]

RowLine == [kind |-> "row", cells |-> Report]

\* A line that export_csv did not write.
OtherLine == [kind |-> "other", cells |-> <<>>]

AbsentFile == [exists |-> FALSE, lines |-> <<>>]

FileOf(ls) == [exists |-> TRUE, lines |-> ls]

\* Mutant: the header is written on every call.
write_header_always(mode) == TRUE

\* bool write_header
write_header(mode) == ~(mode = "Append" /\ file.exists)

\* Mutant: the file is opened for appending in both modes.
opened_content_app(mode) == file.lines

\* What the opened stream holds before the first write: std::ios::app keeps
\* the content, std::ios::trunc drops it; both create a missing file.
opened_content(mode) == IF mode = "Append" THEN file.lines ELSE <<>>

\* Mutant: the stream is opened before the SampleSet is tested.
file_after_export_open_first(mode, canOpen) ==
    IF ~canOpen THEN file
    ELSE IF samples = <<>> THEN FileOf(opened_content(mode))
    ELSE FileOf(opened_content(mode)
                \o (IF write_header(mode) THEN <<HeaderLine>> ELSE <<>>)
                \o <<RowLine>>)

\* The file when export_csv(filename, mode) returns; canOpen tells whether
\* the stream could be opened.
file_after_export(mode, canOpen) ==
    IF samples = <<>> THEN file
    ELSE IF ~canOpen THEN file
    ELSE FileOf(opened_content(mode)
                \o (IF write_header(mode) THEN <<HeaderLine>> ELSE <<>>)
                \o <<RowLine>>)

\* The record of a call: op and mode name it, opened tells that it opened
\* the stream, n counts the calls of export_csv in this mode that opened it
\* with no other call in between, this one included, and fromAbsent tells
\* that the file was missing when the first of them was made.
Op(name, mode, opened, n, fromAbsent) ==
    [op |-> name, mode |-> mode, opened |-> opened, n |-> n,
     fromAbsent |-> fromAbsent]

OtherOp(name) == Op(name, "-", FALSE, 0, FALSE)

op_after_export(mode, canOpen) ==
    IF samples = <<>> \/ ~canOpen
    THEN Op("export_csv", mode, FALSE, 0, FALSE)
    ELSE IF lastOp.op = "export_csv" /\ lastOp.mode = mode /\ lastOp.opened
         THEN Op("export_csv", mode, TRUE, lastOp.n + 1, lastOp.fromAbsent)
         ELSE Op("export_csv", mode, TRUE, 1, ~file.exists)

(* ------------------------------ runner --------------------------------- *)

NoOverhead == [nan |-> FALSE, val |-> 0]

\* measure_overhead(): total is the sum of the iterations empty intervals.
\* 0.0 / 0 is NaN.
measure_overhead(total) ==
    IF iterations = 0 THEN [nan |-> TRUE, val |-> 0]
    ELSE [nan |-> FALSE, val |-> total \div iterations]

\* Mutant: the corrected value is stored as it is.
clamp_missing(corrected) == corrected

\* corrected < 0 ? 0 : corrected
clamp(corrected) == IF corrected < 0 THEN 0 ELSE corrected

\* Mutant: the samples of the earlier run are kept.
run_begin_no_clear ==
    /\ pc = "idle"
    /\ ops < MaxCalls
    /\ ops' = ops + 1
    /\ pc' = "warmup"
    /\ i' = 0
    /\ j' = 0
    /\ calls' = 0
    /\ lastOp' = OtherOp("run")
    /\ UNCHANGED <<sw, config, samples, overhead, d, runs, returned, file, out,
                   stats>>

\* run is entered: samples.clear()
run_begin ==
    /\ pc = "idle"
    /\ ops < MaxCalls
    /\ ops' = ops + 1
    /\ samples' = <<>>
    /\ pc' = "warmup"
    /\ i' = 0
    /\ j' = 0
    /\ calls' = 0
    /\ lastOp' = OtherOp("run")
    /\ UNCHANGED <<sw, config, overhead, d, runs, returned, file, out, stats>>

\* Mutant: the warmup loop has no inner loop over the batch.
warmup_func_once ==
    /\ pc = "warmup"
    /\ i < warmup
    /\ calls' = calls + 1
    /\ i' = i + 1
    /\ UNCHANGED <<sw, config, samples, pc, j, overhead, d, runs, ops,
                   returned, file, out, lastOp, stats>>

\* One func() of the warmup loops, with the loop counters' advance.
warmup_func ==
    /\ pc = "warmup"
    /\ i < warmup
    /\ j < batch_size
    /\ calls' = calls + 1
    /\ IF j + 1 = batch_size
       THEN i' = i + 1 /\ j' = 0
       ELSE i' = i /\ j' = j + 1
    /\ UNCHANGED <<sw, config, samples, pc, overhead, d, runs, ops, returned,
                   file, out, lastOp, stats>>

\* The warmup loop is left and the overhead is measured; the unit of time
\* is taken so that the mean of the empty intervals is a whole number.
run_measure_overhead ==
    /\ pc = "warmup"
    /\ i = warmup
    /\ \E m \in 0..MaxOverhead : overhead' = measure_overhead(m * iterations)
    /\ pc' = "timed"
    /\ i' = 0
    /\ j' = 0
    /\ UNCHANGED <<sw, config, samples, d, calls, runs, ops, returned, file,
                   out, lastOp, stats>>

\* One func(); ClobberMemory() inside a timed interval.
timed_func ==
    /\ pc = "timed"
    /\ i < iterations
    /\ j < batch_size
    /\ calls' = calls + 1
    /\ j' = j + 1
    /\ UNCHANGED <<sw, config, samples, pc, i, overhead, d, runs, ops,
                   returned, file, out, lastOp, stats>>

\* The interval ends: raw is end - start; the corrected value is stored.
timed_sample ==
    /\ pc = "timed"
    /\ i < iterations
    /\ j = batch_size
    /\ \E raw \in 0..MaxRaw :
          /\ d' = raw
          /\ samples' = Append(samples, clamp(raw - overhead.val))
    /\ i' = i + 1
    /\ j' = 0
    /\ UNCHANGED <<sw, config, pc, overhead, calls, runs, ops, returned, file,
                   out, lastOp, stats>>

\* run returns.
run_return ==
    /\ pc = "timed"
    /\ i = iterations
    /\ pc' = "idle"
    /\ i' = 0
    /\ j' = 0
    /\ overhead' = NoOverhead
    /\ d' = 0
    /\ runs' = runs + 1
    /\ returned' = samples
    /\ UNCHANGED <<sw, config, samples, calls, file, out, lastOp, stats, ops>>

(* --------------------------- report operations ------------------------- *)

\* Mutant: the statistics are computed on the SampleSet itself, which is
\* left sorted.
print_stats_in_place ==
    /\ pc = "idle"
    /\ ops < MaxCalls
    /\ ops' = ops + 1
    /\ out' = IF samples = <<>> THEN out ELSE Append(out, Report)
    /\ samples' = Sort(samples)
    /\ lastOp' = OtherOp("print_stats")
    /\ UNCHANGED <<sw, config, locals, calls, runs, returned, file, stats>>

print_stats ==
    /\ pc = "idle"
    /\ ops < MaxCalls
    /\ ops' = ops + 1
    /\ out' = IF samples = <<>> THEN out ELSE Append(out, Report)
    /\ lastOp' = OtherOp("print_stats")
    /\ UNCHANGED <<sw, config, samples, locals, calls, runs, returned, file,
                   stats>>

export_csv(mode, canOpen) ==
    /\ pc = "idle"
    /\ ops < MaxCalls
    /\ ops' = ops + 1
    /\ file' = file_after_export(mode, canOpen)
    /\ lastOp' = op_after_export(mode, canOpen)
    /\ UNCHANGED <<sw, config, samples, locals, calls, runs, returned, out,
                   stats>>

(* --------------------------- specification ----------------------------- *)

\* The fields of a Benchmark that its constructor leaves empty, and the
\* model's own bookkeeping at that point.
Constructed ==
    /\ samples = <<>>
    /\ pc = "idle"
    /\ i = 0
    /\ j = 0
    /\ overhead = NoOverhead
    /\ d = 0
    /\ calls = 0
    /\ runs = 0
    /\ ops = 0
    /\ returned = <<>>
    /\ out = <<>>
    /\ lastOp = OtherOp("none")

\* A Stopwatch as constructed: start_time is the clock's epoch.
SwConstructed ==
    /\ start_time = 0
    /\ accumulated = 0
    /\ running = FALSE
    /\ now = 0
    /\ ranFor = 0
    /\ idleFor = 0
    /\ sw_last = "none"
    /\ sw_calls = 0

NoRet == [op |-> "none", p |-> <<0, 1>>, f |-> fences(<<0>>), value |-> <<>>]

Init ==
    /\ iterations \in 0..MaxIter
    /\ warmup \in 0..MaxWarmup
    /\ batch_size \in 1..MaxBatch
    /\ Constructed
    /\ file \in {AbsentFile, FileOf(<<>>), FileOf(<<OtherLine>>)}
    /\ arg_v = <<>>
    /\ ret = NoRet
    /\ SwConstructed

run_step ==
    \/ run_begin
    \/ warmup_func
    \/ run_measure_overhead
    \/ timed_func
    \/ timed_sample
    \/ run_return

Next ==
    \/ run_step
    \/ print_stats
    \/ \E mode \in {"Truncate", "Append"}, canOpen \in BOOLEAN :
          export_csv(mode, canOpen)

\* A Benchmark that is run, printed and exported in any order.
Spec == Init /\ [][Next]_vars

\* A Benchmark that is only run.
SpecRun == Init /\ [][run_step]_vars

(* ---------------- direct calls of the statistics helpers --------------- *)

RECURSIVE SeqsUpTo(_, _)
SeqsUpTo(S, n) ==
    IF n = 0 THEN {<<>>}
    ELSE LET shorter == SeqsUpTo(S, n - 1)
             longest == {w \in shorter : Len(w) = n - 1}
         IN  shorter \cup {Append(v, x) : v \in longest, x \in S}

SmallValues == {1, 2, 3, 100}

\* The sample vectors of the documented examples, also out of order.
TestVectors ==
    {<<1, 2, 3, 4, 5>>, <<5, 3, 1, 4, 2>>,
     <<1, 2, 3, 4, 5, 100>>, <<100, 5, 1, 4, 2, 3>>}

Inputs == (SeqsUpTo(SmallValues, MaxLen) \ {<<>>}) \cup TestVectors

Probs ==
    {<<0, 1>>, <<1, 4>>, <<1, 3>>, <<1, 2>>, <<3, 4>>, <<9, 10>>,
     <<19, 20>>, <<99, 100>>, <<1, 1>>}

call_percentile ==
    /\ \E p \in Probs :
          ret' = [op |-> "percentile", p |-> p, f |-> NoRet.f,
                  value |-> percentile(arg_v, p[1], p[2])]
    /\ UNCHANGED <<sw, config, samples, locals, calls, runs, ops, returned,
                   file, out, lastOp, arg_v>>

call_filter_outliers ==
    /\ ret' = [op |-> "filter_outliers", p |-> NoRet.p,
               f |-> fences(Sort(arg_v)), value |-> filter_outliers(arg_v)]
    /\ UNCHANGED <<sw, config, samples, locals, calls, runs, ops, returned,
                   file, out, lastOp, arg_v>>

InitStats ==
    /\ iterations = 1
    /\ warmup = 0
    /\ batch_size = 1
    /\ Constructed
    /\ file = AbsentFile
    /\ arg_v \in Inputs
    /\ ret = NoRet
    /\ SwConstructed

NextStats == call_percentile \/ call_filter_outliers

\* The static helpers called on any non-empty vector.
SpecStats == InitStats /\ [][NextStats]_vars

(* ------------------------------ Stopwatch ------------------------------ *)

\* Stopwatch::total(), in clock ticks; elapsed_s, elapsed_ms, elapsed_us
\* and elapsed_ns are this value in their units.
total == accumulated + (IF running THEN now - start_time ELSE 0)

\* The steady clock advances by one tick.
tick ==
    /\ now < MaxNow
    /\ now' = now + 1
    /\ ranFor' = IF running THEN ranFor + 1 ELSE ranFor
    /\ idleFor' = IF running THEN idleFor ELSE idleFor + 1
    /\ UNCHANGED <<bench, sw_fields, sw_last, sw_calls>>

\* A call of a Stopwatch operation is made.
sw_call(name) ==
    /\ sw_calls < MaxSwCalls
    /\ sw_calls' = sw_calls + 1
    /\ sw_last' = name

start ==
    /\ sw_call("start")
    /\ accumulated' = 0
    /\ start_time' = now
    /\ running' = TRUE
    /\ ranFor' = 0
    /\ idleFor' = 0
    /\ UNCHANGED <<bench, now>>

pause ==
    /\ sw_call("pause")
    /\ IF running
       THEN /\ accumulated' = accumulated + (now - start_time)
            /\ running' = FALSE
       ELSE UNCHANGED <<accumulated, running>>
    /\ UNCHANGED <<bench, start_time, now, ranFor, idleFor>>

\* Mutant: the stopwatch is set running again from the old start_time.
resume_from_old_start ==
    /\ sw_call("resume")
    /\ IF ~running
       THEN running' = TRUE
       ELSE UNCHANGED running
    /\ UNCHANGED <<bench, start_time, accumulated, now, ranFor, idleFor>>

resume ==
    /\ sw_call("resume")
    /\ IF ~running
       THEN /\ start_time' = now
            /\ running' = TRUE
       ELSE UNCHANGED <<start_time, running>>
    /\ UNCHANGED <<bench, accumulated, now, ranFor, idleFor>>

stop ==
    /\ sw_call("stop")
    /\ IF running
       THEN /\ accumulated' = accumulated + (now - start_time)
            /\ running' = FALSE
       ELSE UNCHANGED <<accumulated, running>>
    /\ UNCHANGED <<bench, start_time, now, ranFor, idleFor>>

InitStopwatch ==
    /\ iterations = 1
    /\ warmup = 0
    /\ batch_size = 1
    /\ Constructed
    /\ file = AbsentFile
    /\ arg_v = <<>>
    /\ ret = NoRet
    /\ SwConstructed

NextStopwatch == tick \/ start \/ pause \/ resume \/ stop

\* A Stopwatch operated in any order while the clock advances.
SpecStopwatch == InitStopwatch /\ [][NextStopwatch]_vars

(* ------------------------------- claims -------------------------------- *)

\* C1: whenever run has returned, after one run or after several, the
\* SampleSet holds exactly iterations samples: a later run replaces the
\* samples of the earlier one.
C1_SampleCount ==
    (pc = "idle" /\ runs >= 1) => Len(samples) = iterations

C1_Witness ==
    /\ pc = "idle"
    /\ runs = 2
    /\ iterations >= 1
    /\ Len(samples) = iterations

\* C2: every stored sample is >= 0, whatever the raw interval and the
\* overhead were.
C2_NonNegative ==
    \A k \in 1..Len(samples) : samples[k] >= 0

\* A sample stored from a raw interval smaller than the overhead.
C2_Witness ==
    /\ pc = "timed"
    /\ Len(samples) >= 1
    /\ d < overhead.val
    /\ samples[Len(samples)] = 0

\* C3: the warmup phase makes warmup * batch_size invocations and records
\* no sample; each sample then closes exactly batch_size more invocations;
\* a whole run makes (warmup + iterations) * batch_size of them.
C3_Invocations ==
    /\ pc = "warmup" =>
          /\ samples = <<>>
          /\ calls = i * batch_size + j
          /\ calls <= warmup * batch_size
    /\ pc = "timed" =>
          /\ Len(samples) = i
          /\ j <= batch_size
          /\ calls = warmup * batch_size + Len(samples) * batch_size + j
    /\ (pc = "idle" /\ runs >= 1) =>
          calls = (warmup + iterations) * batch_size

C3_Witness ==
    /\ pc = "idle"
    /\ runs >= 1
    /\ warmup >= 1
    /\ batch_size >= 2
    /\ iterations >= 2
    /\ Len(samples) = iterations
    /\ calls = (warmup + iterations) * batch_size

\* C4: after two successive calls of export_csv in Truncate mode that
\* opened the file, with a non-empty SampleSet, the file is one header row
\* followed by the one data row of the second call, whatever it held before.
C4_TruncateTwice ==
    (/\ lastOp.op = "export_csv"
     /\ lastOp.mode = "Truncate"
     /\ lastOp.opened
     /\ lastOp.n >= 2)
    => (file.exists /\ file.lines = <<HeaderLine, RowLine>>)

C4_Witness ==
    /\ lastOp.op = "export_csv"
    /\ lastOp.mode = "Truncate"
    /\ lastOp.opened
    /\ lastOp.n >= 2
    /\ samples # <<>>
    /\ file.lines = <<HeaderLine, RowLine>>

\* What one call in Append mode leaves in the file: the former content,
\* the header if the file was missing, and one data row.
AppendedOnce ==
    /\ file'.exists
    /\ file'.lines = file.lines
                     \o (IF file.exists THEN <<>> ELSE <<HeaderLine>>)
                     \o <<RowLine>>

\* After n successive appending calls that started on a missing file: one
\* header row, then n data rows, the last one that of the last call.
HeaderThenRows ==
    (/\ lastOp.op = "export_csv"
     /\ lastOp.mode = "Append"
     /\ lastOp.opened
     /\ lastOp.fromAbsent)
    => /\ file.exists
       /\ Len(file.lines) = lastOp.n + 1
       /\ file.lines[1] = HeaderLine
       /\ \A k \in 2..Len(file.lines) : file.lines[k].kind = "row"
       /\ file.lines[Len(file.lines)] = RowLine

\* C5 as stated: every call of export_csv in Append mode with a non-empty
\* SampleSet appends one data row, after the header if and only if the file
\* was missing; n such calls from a missing file leave one header row and
\* n data rows.
C5_AppendAlwaysWrites ==
    /\ [][(/\ lastOp'.op = "export_csv"
           /\ lastOp'.mode = "Append"
           /\ samples # <<>>) => AppendedOnce]_vars
    /\ []HeaderThenRows

\* C5 as amended: the same, for the calls that could open the file.
C5_AppendWhenOpened ==
    /\ [][(/\ lastOp'.op = "export_csv"
           /\ lastOp'.mode = "Append"
           /\ lastOp'.opened) => AppendedOnce]_vars
    /\ []HeaderThenRows

C5_Witness ==
    /\ lastOp.op = "export_csv"
    /\ lastOp.mode = "Append"
    /\ lastOp.opened
    /\ lastOp.fromAbsent
    /\ lastOp.n = 2
    /\ file.lines = <<HeaderLine, RowLine, RowLine>>

\* C6: a call of print_stats or of export_csv, in either mode, made while
\* the SampleSet is empty leaves standard output and the file as they were.
C6_EmptyIsNoOp ==
    [][(/\ samples = <<>>
        /\ lastOp'.op \in {"print_stats", "export_csv"})
       => (out' = out /\ file' = file)]_vars

\* A truncating export after a run that recorded no sample, on a file that
\* still holds its line.
C6_Witness ==
    /\ lastOp.op = "export_csv"
    /\ lastOp.mode = "Truncate"
    /\ samples = <<>>
    /\ runs >= 1
    /\ file = FileOf(<<OtherLine>>)

\* The element of rank k (from 0) of v in ascending order, by counting.
OrderStat(v, k) ==
    CHOOSE x \in {v[m] : m \in 1..Len(v)} :
        /\ Cardinality({m \in 1..Len(v) : v[m] < x}) <= k
        /\ Cardinality({m \in 1..Len(v) : v[m] <= x}) > k

\* C7: percentile(v, p) is the element of rank floor(p * (N - 1)) of v in
\* ascending order, whatever the order of v; on 1..5 it is 3, 1 and 5 for
\* p = 0.5, 0 and 1.
C7_Percentile ==
    ret.op = "percentile" =>
        /\ ret.value
             = OrderStat(arg_v, (ret.p[1] * (Len(arg_v) - 1)) \div ret.p[2])
        /\ arg_v \in {<<1, 2, 3, 4, 5>>, <<5, 3, 1, 4, 2>>} =>
              /\ ret.p = <<1, 2>> => ret.value = 3
              /\ ret.p = <<0, 1>> => ret.value = 1
              /\ ret.p = <<1, 1>> => ret.value = 5

C7_Witness ==
    /\ ret.op = "percentile"
    /\ arg_v = <<5, 3, 1, 4, 2>>
    /\ ret.p = <<1, 2>>
    /\ ret.value = 3

\* C8 as stated: on [1,2,3,4,5,100] filter_outliers keeps 1..5 and drops
\* 100, with Q1 = 2, Q3 = 4.5 and an upper fence below 100.
C8_QuartilesAsStated ==
    (ret.op = "filter_outliers" /\ arg_v = <<1, 2, 3, 4, 5, 100>>) =>
        /\ ret.value = <<1, 2, 3, 4, 5>>
        /\ ret.f.q1 = 2
        /\ 2 * ret.f.q3 = 9
        /\ ret.f.hi2 < 2 * 100

\* C8 as amended: the same with Q3 = 4, which puts the upper fence at 7.
C8_Quartiles ==
    (ret.op = "filter_outliers" /\ arg_v = <<1, 2, 3, 4, 5, 100>>) =>
        /\ ret.value = <<1, 2, 3, 4, 5>>
        /\ ret.f.q1 = 2
        /\ ret.f.q3 = 4
        /\ ret.f.hi2 = 2 * 7
        /\ ret.f.hi2 < 2 * 100

C8_Witness ==
    /\ ret.op = "filter_outliers"
    /\ arg_v = <<1, 2, 3, 4, 5, 100>>
    /\ ret.value = <<1, 2, 3, 4, 5>>

Count(v, x) == Cardinality({m \in 1..Len(v) : v[m] = x})

\* C9: filter_outliers returns, in ascending order and as often as they
\* occur in the input, exactly the values between q1 - 1.5*iqr and
\* q3 + 1.5*iqr, both included; the result is never empty, and it is the
\* whole input when all values are equal.
C9_FilterOutliers ==
    ret.op = "filter_outliers" =>
        LET n   == Len(arg_v)
            q1  == OrderStat(arg_v, (n - 1) \div 4)
            q3  == OrderStat(arg_v, (3 * (n - 1)) \div 4)
            iqr == q3 - q1
            kept(x) == 2 * q1 - 3 * iqr <= 2 * x /\ 2 * x <= 2 * q3 + 3 * iqr
            res == ret.value
        IN  /\ \A k \in 1..(Len(res) - 1) : res[k] <= res[k + 1]
            /\ \A k \in 1..n :
                  Count(res, arg_v[k])
                    = IF kept(arg_v[k]) THEN Count(arg_v, arg_v[k]) ELSE 0
            /\ \A k \in 1..Len(res) : Count(arg_v, res[k]) >= 1
            /\ res # <<>>
            /\ (\A k \in 1..n : arg_v[k] = arg_v[1]) => Len(res) = n

\* An outlier is dropped from an unsorted input that holds a value twice.
C9_Witness ==
    /\ ret.op = "filter_outliers"
    /\ Len(ret.value) < Len(arg_v)
    /\ Len(ret.value) >= 2
    /\ ret.value[1] = ret.value[2]
    /\ arg_v[1] > arg_v[Len(arg_v)]

\* C10: print_stats and export_csv leave the SampleSet and the Config as
\* they are, so that outside run the SampleSet is what run returned, in the
\* order in which run recorded it.
C10_ReportsReadOnly ==
    /\ [][lastOp'.op \in {"print_stats", "export_csv"}
          => (samples' = samples /\ config' = config)]_vars
    /\ [](pc = "idle" => samples = returned)

\* Both reports were made on samples that are not in ascending order.
C10_Witness ==
    /\ lastOp.op = "export_csv"
    /\ lastOp.opened
    /\ Len(out) >= 1
    /\ Len(samples) >= 2
    /\ samples[1] > samples[2]
    /\ samples = returned

\* A step that is a call of the Stopwatch operation name.
SwCalled(name) == sw_calls' = sw_calls + 1 /\ sw_last' = name

\* C11: the elapsed value is the sum of the clock intervals during which
\* the stopwatch was running since the last start(); it does not change
\* while the stopwatch stays stopped or paused; pause() and stop() on a
\* stopwatch that is not running, and resume() on one that is running,
\* change none of its fields; start() sets the elapsed value to zero.
C11_PausedTimeDoesNotCount ==
    /\ [](total = ranFor)
    /\ [][(~running /\ ~running') => total' = total]_vars
    /\ [][((SwCalled("pause") \/ SwCalled("stop")) /\ ~running)
          => UNCHANGED sw_fields]_vars
    /\ [][(SwCalled("resume") /\ running) => UNCHANGED sw_fields]_vars
    /\ [][SwCalled("start")
          => (accumulated' = 0 /\ total' = 0 /\ running')]_vars

\* Stopped after start(), a pause and a resume, with time having passed
\* both while running and while paused.
C11_Witness ==
    /\ sw_last = "stop"
    /\ sw_calls >= 4
    /\ ~running
    /\ idleFor >= 1
    /\ ranFor >= 2
    /\ total = ranFor

=============================================================================
